---- MODULE Spec2Model ----
(***************************************************************************)
(* The affiliate redirect route of cogiflow-affiliate-api.                 *)
(*                                                                         *)
(* src/unnamed/part_000 is the route handler that answers a tracked        *)
(* resolution with a plain 301 redirect; src/app/api/redirect/[slug]/      *)
(* route.ts holds the variants that answer it with a 200 HTML page.  The   *)
(* handlers are otherwise line for line the same.  GET awaits the store    *)
(* twice (the lookup, then the counter update), so one GET is two atomic   *)
(* steps of the model, GETLookup and GETUpdate, and the steps of several   *)
(* invocations interleave.  POST, PUT and DELETE are one step each.        *)
(*                                                                         *)
(* Strings the handler takes apart (the slug) are sequences of one         *)
(* character strings; strings it only passes on or compares are strings.   *)
(***************************************************************************)
EXTENDS Integers, Sequences, FiniteSets, TLC

\* ------------------------------------------------------------------ bounds

\* Number of handler invocations that may be in flight together.
NumInv == 3

\* Longest raw slug of a request.
MaxSlugLen == 2

\* ------------------------------------------------------- program constants

\* 'Cache-Control': 'public, max-age=300' (invalid input, not found).
NotFoundMaxAge == 300

\* 'Cache-Control': 'public, max-age=60' (store error, unexpected error).
ErrorMaxAge == 60

\* The fixed default URL of every default redirect.
DefaultUrl == "https://cogiflow.ai"

\* A value the store or the request does not hold (null / undefined).
NULL == "<null>"

\* ------------------------------------------------------------ string tools

UpperCase ==
    << "A", "B", "C", "D", "E", "F", "G", "H", "I", "J", "K", "L", "M",
       "N", "O", "P", "Q", "R", "S", "T", "U", "V", "W", "X", "Y", "Z" >>

LowerCase ==
    << "a", "b", "c", "d", "e", "f", "g", "h", "i", "j", "k", "l", "m",
       "n", "o", "p", "q", "r", "s", "t", "u", "v", "w", "x", "y", "z" >>

Digits == << "0", "1", "2", "3", "4", "5", "6", "7", "8", "9" >>

\* What String.prototype.trim() removes.
WhiteSpace == { " ", "\t", "\n", "\r" }

RECURSIVE TrimStart(_)
TrimStart(s) ==
    IF s # << >> /\ Head(s) \in WhiteSpace THEN TrimStart(Tail(s)) ELSE s

RECURSIVE TrimEnd(_)
TrimEnd(s) ==
    IF s # << >> /\ s[Len(s)] \in WhiteSpace
    THEN TrimEnd(SubSeq(s, 1, Len(s) - 1))
    ELSE s

\* slug.trim()
Trim(s) == TrimEnd(TrimStart(s))

ToLowerChar(c) ==
    IF \E k \in 1..Len(UpperCase) : UpperCase[k] = c
    THEN LowerCase[CHOOSE k \in 1..Len(UpperCase) : UpperCase[k] = c]
    ELSE c

\* .toLowerCase()
ToLowerCase(s) == [k \in 1..Len(s) |-> ToLowerChar(s[k])]

\* The character class a-z0-9-_ of the sanitizing regular expression.
SlugCharAllowed(c) ==
    \/ \E k \in 1..Len(LowerCase) : LowerCase[k] = c
    \/ \E k \in 1..Len(Digits) : Digits[k] = c
    \/ c = "-"
    \/ c = "_"

\* .replace(/[^a-z0-9-_]/g, '')
StripDisallowed(s) == SelectSeq(s, SlugCharAllowed)

\* String(n) for a non-negative integer.
RECURSIVE DecimalString(_)
DecimalString(n) ==
    IF n < 10
    THEN Digits[n + 1]
    ELSE DecimalString(n \div 10) \o Digits[(n % 10) + 1]

\* -------------------------------------------------------------- the store

\* Primary keys of the affiliate_links table.
Ids == { "id1", "id2" }

\* States of one handler invocation: not started, awaiting the counter
\* update (the lookup has returned a row), responded.
PcValues == { "idle", "update", "done" }

Invs == 1..NumInv

VARIABLES
    affiliate_links,  \* the table: id -> row (the row's other columns)
    responseMode,     \* which handler is deployed: "redirect" or "html"
    pc,               \* invocation -> its position in the handler
    method,           \* invocation -> HTTP method of its request
    params,           \* invocation -> route parameters of its request
    affiliateLink,    \* invocation -> the row its lookup returned
    fetchResult,      \* invocation -> outcome of its lookup
    updateResult,     \* invocation -> outcome of its counter update
    response,         \* invocation -> the response it returned
    calls,            \* invocation -> the store calls it has issued
    initialClicks     \* id -> the clicks the row held at the start

vars ==
    << affiliate_links, responseMode, pc, method, params, affiliateLink,
       fetchResult, updateResult, response, calls, initialClicks >>

\* interface AffiliateLink: the row a lookup returns (id and columns).
AffiliateLink(id, row) ==
    [ id |-> id,
      slug |-> row.slug,
      redirect_url |-> row.redirect_url,
      fallback_url |-> row.fallback_url,
      clicks |-> row.clicks,
      created_at |-> row.created_at,
      active |-> row.active ]

\* data: null
NullLink ==
    [ id |-> NULL, slug |-> << >>, redirect_url |-> NULL,
      fallback_url |-> NULL, clicks |-> 0, created_at |-> NULL,
      active |-> FALSE ]

\* The lookup without its filter on active.
MatchingIdsAnyState(links, slug) ==
    { id \in Ids : links[id].slug = slug }

\* .eq('slug', sanitizedSlug).eq('active', true)
MatchingIds(links, slug) ==
    { id \in Ids : links[id].slug = slug /\ links[id].active = TRUE }

\* What the store may do with a select: answer it, fail, or the client
\* call may raise.
SelectOutcomes == { "answer", "error", "throw" }

\* from('affiliate_links').select('*').eq(...).eq(...).single(): one row
\* exactly is the data; none or several is the error PGRST116.
SelectSingle(links, slug, env) ==
    LET ids == MatchingIds(links, slug) IN
    CASE env = "throw" ->
           [ thrown |-> TRUE, data |-> NullLink, error |-> NULL ]
      [] env = "error" ->
           [ thrown |-> FALSE, data |-> NullLink, error |-> "08006" ]
      [] env = "answer" /\ Cardinality(ids) = 1 ->
           [ thrown |-> FALSE,
             data |-> LET id == CHOOSE x \in ids : TRUE
                      IN AffiliateLink(id, links[id]),
             error |-> NULL ]
      [] OTHER ->
           [ thrown |-> FALSE, data |-> NullLink, error |-> "PGRST116" ]

\* What may come of the awaited update: the store applies it ("ok"); the
\* store fails it and applies nothing ("error"); the call raises before
\* the store has applied anything ("throw"); or the store applies it and
\* the handler then raises before it returns, in the rest of the awaited
\* call or in what follows it inside the try block ("throwLate").
UpdateOutcomes == { "ok", "error", "throw", "throwLate" }

\* The outcomes in which the store has applied the update.
UpdateApplied(env) == env \in { "ok", "throwLate" }

\* The update as an atomic increment of the stored value.
UpdateClicksAtomic(links, id, value, env) ==
    IF UpdateApplied(env)
    THEN [ x \in Ids |->
             IF x = id THEN [ links[x] EXCEPT !.clicks = @ + 1 ]
             ELSE links[x] ]
    ELSE links

\* The update keyed by the row's slug instead of its id.
UpdateClicksBySlug(links, id, value, env) ==
    IF UpdateApplied(env)
    THEN [ x \in Ids |->
             IF links[x].slug = links[id].slug
             THEN [ links[x] EXCEPT !.clicks = value ]
             ELSE links[x] ]
    ELSE links

\* from('affiliate_links').update({ clicks: value }).eq('id', id)
UpdateClicks(links, id, value, env) ==
    IF UpdateApplied(env)
    THEN [ x \in Ids |->
             IF x = id THEN [ links[x] EXCEPT !.clicks = value ]
             ELSE links[x] ]
    ELSE links

\* ------------------------------------------------------------ the handler

\* new URL(urlString).protocol on the URL strings of the model; NULL when
\* the constructor throws (no scheme, so a relative URL without a base).
UrlProtocol(urlString) ==
    CASE urlString = "https://partner.example/x" -> "https:"
      [] urlString = "http://fallback.example/" -> "http:"
      [] urlString = "https://cogiflow.ai" -> "https:"
      [] urlString = "ftp://files.example/x" -> "ftp:"
      [] urlString = "javascript:alert(1)" -> "javascript:"
      [] OTHER -> NULL

\* Validation that accepts whatever parses, of any scheme.
isParsableUrl(urlString) == UrlProtocol(urlString) # NULL

isValidUrl(urlString) ==
    UrlProtocol(urlString) = "http:" \/ UrlProtocol(urlString) = "https:"

\* JavaScript truthiness of a string or null.
Truthy(v) == v # NULL /\ v # ""

\* (affiliateLink.clicks || 0)
ClicksOrZero(clicks) == IF clicks = 0 THEN 0 ELSE clicks

\* The increment counted twice.
NextClicksTwice(link) == ClicksOrZero(link.clicks) + 2

\* The value the update writes and the header reports.
NextClicks(link) == ClicksOrZero(link.clicks) + 1

\* "Determine redirect URL" .. "Final validation of redirect URL"
SelectDestination(link) ==
    LET first == link.redirect_url
        second == IF ~Truthy(first) \/ ~isValidUrl(first)
                  THEN IF Truthy(link.fallback_url)
                       THEN link.fallback_url
                       ELSE DefaultUrl
                  ELSE first
    IN IF ~isValidUrl(second) THEN DefaultUrl ELSE second

NoResponse ==
    [ status |-> 0, destination |-> NULL, cacheControl |-> NULL,
      contentType |-> NULL, affiliate |-> NULL, clicks |-> NULL,
      body |-> NULL ]

\* NextResponse.redirect('https://cogiflow.ai', { status: 301, headers:
\* { 'Cache-Control': 'public, max-age=<maxAge>' } })
DefaultRedirect(maxAge) ==
    [ status |-> 301, destination |-> DefaultUrl,
      cacheControl |-> "public, max-age=" \o DecimalString(maxAge),
      contentType |-> NULL, affiliate |-> NULL, clicks |-> NULL,
      body |-> NULL ]

\* The response of a tracked resolution: the 301 redirect of part_000,
\* or the 200 HTML page of route.ts that opens the destination.
TrackedResponse(mode, link, redirectUrl) ==
    [ status |-> IF mode = "html" THEN 200 ELSE 301,
      destination |-> redirectUrl,
      cacheControl |-> "no-cache, no-store, must-revalidate",
      contentType |-> IF mode = "html" THEN "text/html; charset=utf-8"
                      ELSE NULL,
      affiliate |-> link.id,
      clicks |-> DecimalString(NextClicks(link)),
      body |-> IF mode = "html" THEN "html" ELSE NULL ]

\* The rejection sent with the status of a missing route.
MethodNotAllowedAs404 ==
    [ status |-> 404, destination |-> NULL, cacheControl |-> NULL,
      contentType |-> "application/json", affiliate |-> NULL,
      clicks |-> NULL, body |-> "{\"error\":\"Method not allowed\"}" ]

\* NextResponse.json({ error: 'Method not allowed' }, { status: 405 })
MethodNotAllowed ==
    [ status |-> 405, destination |-> NULL, cacheControl |-> NULL,
      contentType |-> "application/json", affiliate |-> NULL,
      clicks |-> NULL, body |-> "{\"error\":\"Method not allowed\"}" ]

\* const { slug } = params: the slug is there or is undefined.
NoSlug == [ has |-> FALSE, slug |-> << >> ]

\* !slug || typeof slug !== 'string' || slug.trim() === ''
SlugMissing(p) == ~p.has \/ p.slug = << >> \/ Trim(p.slug) = << >>

sanitizedSlug(p) == StripDisallowed(ToLowerCase(Trim(p.slug)))

\* Sanitization that cleans and continues with the stripped slug.
SlugNeverRejected(p) == FALSE

\* sanitizedSlug !== slug.trim().toLowerCase()
SlugHasInvalidChars(p) == sanitizedSlug(p) # ToLowerCase(Trim(p.slug))

\* Every lookup error cached like "no rows".
FetchErrorMaxAgeUniform(code) == NotFoundMaxAge

\* if (fetchError.code === 'PGRST116') ... else ...: the lifetime of the
\* default redirect that answers a lookup error.
FetchErrorMaxAge(code) ==
    IF code = "PGRST116" THEN NotFoundMaxAge ELSE ErrorMaxAge

\* GET from its entry to the handling of the lookup's result: what it
\* answers (or that it goes on to the update), and whether it queried.
GETResolve(p, links, env) ==
    LET res == SelectSingle(links, sanitizedSlug(p), env) IN
    CASE SlugMissing(p) ->
           [ pc |-> "done", queried |-> FALSE, fetch |-> NULL,
             link |-> NullLink, response |-> DefaultRedirect(NotFoundMaxAge) ]
      [] ~SlugMissing(p) /\ SlugHasInvalidChars(p) ->
           [ pc |-> "done", queried |-> FALSE, fetch |-> NULL,
             link |-> NullLink, response |-> DefaultRedirect(NotFoundMaxAge) ]
      [] OTHER ->
           CASE res.thrown ->
                  [ pc |-> "done", queried |-> TRUE, fetch |-> "thrown",
                    link |-> NullLink,
                    response |-> DefaultRedirect(ErrorMaxAge) ]
             [] ~res.thrown /\ res.error # NULL ->
                  [ pc |-> "done", queried |-> TRUE, fetch |-> res.error,
                    link |-> NullLink,
                    response |-> DefaultRedirect(FetchErrorMaxAge(res.error)) ]
             [] ~res.thrown /\ res.error = NULL /\ res.data = NullLink ->
                  [ pc |-> "done", queried |-> TRUE, fetch |-> "empty",
                    link |-> NullLink,
                    response |-> DefaultRedirect(NotFoundMaxAge) ]
             [] OTHER ->
                  [ pc |-> "update", queried |-> TRUE, fetch |-> "row",
                    link |-> res.data, response |-> NoResponse ]

\* The first step of GET: validation, sanitization, the lookup and the
\* handling of its result.
GETLookup(i, p, env) ==
    LET r == GETResolve(p, affiliate_links, env) IN
    /\ pc[i] = "idle"
    /\ pc' = [ pc EXCEPT ![i] = r.pc ]
    /\ method' = [ method EXCEPT ![i] = "GET" ]
    /\ params' = [ params EXCEPT ![i] = p ]
    /\ affiliateLink' = [ affiliateLink EXCEPT ![i] = r.link ]
    /\ fetchResult' = [ fetchResult EXCEPT ![i] = r.fetch ]
    /\ response' = [ response EXCEPT ![i] = r.response ]
    /\ calls' = [ calls EXCEPT ![i].select = r.queried ]
    /\ UNCHANGED << affiliate_links, responseMode, updateResult,
                    initialClicks >>

\* A counter-update failure treated as a failure of the resolution.
GETRespondFailing(mode, link, env) ==
    IF env \in { "throw", "throwLate", "error" }
    THEN DefaultRedirect(ErrorMaxAge)
    ELSE TrackedResponse(mode, link, SelectDestination(link))

\* What GET answers after the counter update: the tracked response
\* whether or not updateError is set, the catch block's when it raised.
GETRespond(mode, link, env) ==
    IF env \in { "throw", "throwLate" }
    THEN DefaultRedirect(ErrorMaxAge)
    ELSE TrackedResponse(mode, link, SelectDestination(link))

\* The second step of GET: the counter update, the choice of the
\* destination and the response.
GETUpdate(i, env) ==
    LET link == affiliateLink[i] IN
    /\ pc[i] = "update"
    /\ affiliate_links' =
           UpdateClicks(affiliate_links, link.id, NextClicks(link), env)
    /\ updateResult' = [ updateResult EXCEPT ![i] = env ]
    /\ calls' = [ calls EXCEPT ![i].update = TRUE ]
    /\ response' = [ response EXCEPT ![i] = GETRespond(responseMode, link, env) ]
    /\ pc' = [ pc EXCEPT ![i] = "done" ]
    /\ UNCHANGED << responseMode, method, params, affiliateLink, fetchResult,
                    initialClicks >>

\* export async function POST / PUT / DELETE
Reject(i, m, p) ==
    /\ pc[i] = "idle"
    /\ pc' = [ pc EXCEPT ![i] = "done" ]
    /\ method' = [ method EXCEPT ![i] = m ]
    /\ params' = [ params EXCEPT ![i] = p ]
    /\ response' = [ response EXCEPT ![i] = MethodNotAllowed ]
    /\ UNCHANGED << affiliate_links, responseMode, affiliateLink,
                    fetchResult, updateResult, calls, initialClicks >>

POST(i, p) == Reject(i, "POST", p)

PUT(i, p) == Reject(i, "PUT", p)

DELETE(i, p) == Reject(i, "DELETE", p)

\* ------------------------------------------------- requests and the table

\* Characters of the raw slugs: a letter in both cases, a space, a
\* character the sanitizer strips, and an allowed non-letter.
SlugChars == { "t", "T", " ", "/", "_" }

RawSlugs ==
    UNION { [ 1..n -> SlugChars ] : n \in 0..MaxSlugLen }

AllParams == { NoSlug } \cup { [ has |-> TRUE, slug |-> s ] : s \in RawSlugs }

\* The request of the concurrent workload: one slug, in a spelling the
\* handler has to trim and lowercase.
HotParams == { [ has |-> TRUE, slug |-> << "T", " " >> ] }

Rows(slugs, redirects, fallbacks, counts) ==
    [ slug : slugs, redirect_url : redirects, fallback_url : fallbacks,
      clicks : counts, created_at : { "2024-01-01" }, active : BOOLEAN ]

RedirectUrls ==
    { NULL, "", "partner.example/x", "javascript:alert(1)",
      "https://partner.example/x" }

FallbackUrls ==
    { NULL, "", "ftp://files.example/x", "http://fallback.example/",
      DefaultUrl }

InitInvocations ==
    /\ pc = [ i \in Invs |-> "idle" ]
    /\ method = [ i \in Invs |-> NULL ]
    /\ params = [ i \in Invs |-> NoSlug ]
    /\ affiliateLink = [ i \in Invs |-> NullLink ]
    /\ fetchResult = [ i \in Invs |-> NULL ]
    /\ updateResult = [ i \in Invs |-> NULL ]
    /\ response = [ i \in Invs |-> NoResponse ]
    /\ calls = [ i \in Invs |-> [ select |-> FALSE, update |-> FALSE ] ]
    /\ initialClicks = [ id \in Ids |-> affiliate_links[id].clicks ]

\* The concurrent workload: an active row and a second row of the same
\* slug, active (the slug is then ambiguous) or not; any interleaving.
Init ==
    /\ affiliate_links \in
         { l \in [ Ids -> Rows({ << "t" >> },
                               { "https://partner.example/x", "" },
                               { "http://fallback.example/" }, { 0, 5 }) ] :
             /\ l["id1"].active
             /\ l["id2"].redirect_url = "https://partner.example/x"
             /\ l["id2"].clicks = 0 }
    /\ responseMode \in { "redirect", "html" }
    /\ InitInvocations

Next ==
    \E i \in Invs :
        \/ \E p \in HotParams, env \in SelectOutcomes : GETLookup(i, p, env)
        \/ \E env \in UpdateOutcomes : GETUpdate(i, env)
        \/ \E p \in HotParams : POST(i, p)
        \/ \E p \in HotParams : PUT(i, p)
        \/ \E p \in HotParams : DELETE(i, p)

Spec == Init /\ [][Next]_vars

\* One invocation, over every raw slug and every combination of
\* redirect_url and fallback_url of the row of slug "t", active or not,
\* beside an active row of another slug.
InitSingle ==
    /\ affiliate_links \in
         { l \in [ Ids -> Rows({ << "t" >>, << "_" >> }, RedirectUrls,
                               FallbackUrls, { 0, 5 }) ] :
             /\ l["id1"].slug = << "t" >>
             /\ l["id2"].slug = << "_" >>
             /\ l["id2"].active
             /\ l["id2"].redirect_url = "https://partner.example/x"
             /\ l["id2"].fallback_url = NULL
             /\ l["id2"].clicks = 0 }
    /\ responseMode \in { "redirect", "html" }
    /\ InitInvocations

NextSingle ==
    \/ \E p \in AllParams, env \in SelectOutcomes : GETLookup(1, p, env)
    \/ \E env \in UpdateOutcomes : GETUpdate(1, env)
    \/ \E p \in AllParams : POST(1, p)
    \/ \E p \in AllParams : PUT(1, p)
    \/ \E p \in AllParams : DELETE(1, p)

SpecSingle == InitSingle /\ [][NextSingle]_vars

\* ------------------------------------------------------- terms of the claims

\* A slug that after trim and lowercase is non-empty and holds only
\* characters of a-z, 0-9, '-' and '_'.
WellFormed(p) ==
    /\ p.has
    /\ Trim(p.slug) # << >>
    /\ \A k \in 1..Len(Trim(p.slug)) :
           SlugCharAllowed(ToLowerCase(Trim(p.slug))[k])

\* The rows a request's slug names: active, and of the slug as trimmed
\* and lowercased.
ActiveRowsOf(p) ==
    { id \in Ids :
        /\ affiliate_links[id].active
        /\ affiliate_links[id].slug = ToLowerCase(Trim(p.slug)) }

\* The URLs of the model that are absolute with scheme http or https.
HttpUrls ==
    { "https://partner.example/x", "http://fallback.example/",
      "https://cogiflow.ai" }

\* The columns of the row a lookup returned, as the table holds them.
RowOf(link) ==
    [ slug |-> link.slug, redirect_url |-> link.redirect_url,
      fallback_url |-> link.fallback_url, clicks |-> link.clicks,
      created_at |-> link.created_at, active |-> link.active ]

\* Invocation i takes its lookup step / its update step.
LookupStep(i) == pc[i] = "idle" /\ method'[i] = "GET"

UpdateStep(i) == pc[i] = "update" /\ pc'[i] = "done"

\* The response is the fixed default redirect with the given lifetime.
IsDefaultRedirect(r, cache) ==
    /\ r.status = 301
    /\ r.destination = "https://cogiflow.ai"
    /\ r.cacheControl = cache
    /\ r.affiliate = NULL
    /\ r.clicks = NULL

\* ------------------------------------------------------------------ claims

\* C1: a GET whose slug, trimmed and lowercased, is well formed and is the
\* slug of exactly one active row is matched to that row by the lookup,
\* which changes nothing; and when no other resolution has changed the row
\* since and the update succeeds, the response's destination is the row's
\* redirect_url if that is a valid http(s) URL, the row's clicks becomes
\* its value before plus 1, and nothing else in the table changes.
C1_TrackedResolution ==
    [][ \A i \in Invs :
          /\ ( /\ LookupStep(i)
               /\ WellFormed(params'[i])
               /\ Cardinality(ActiveRowsOf(params'[i])) = 1
               /\ fetchResult'[i] \notin { "08006", "thrown" } )
             => /\ pc'[i] = "update"
                /\ affiliateLink'[i].id \in ActiveRowsOf(params'[i])
                /\ RowOf(affiliateLink'[i])
                     = affiliate_links[affiliateLink'[i].id]
                /\ affiliate_links' = affiliate_links
          /\ ( /\ UpdateStep(i)
               /\ updateResult'[i] = "ok"
               /\ affiliate_links[affiliateLink[i].id]
                    = RowOf(affiliateLink[i]) )
             => /\ affiliateLink[i].redirect_url \in HttpUrls
                     => response'[i].destination
                          = affiliateLink[i].redirect_url
                /\ affiliate_links' =
                     [ affiliate_links EXCEPT
                         ![affiliateLink[i].id].clicks = @ + 1 ]
      ]_vars

\* C1 witness: the request "T " matched the row of slug "t" that held 5
\* clicks, was redirected to its redirect_url, and the row holds 6.
C1_Witness ==
    \E i \in Invs :
        /\ pc[i] = "done"
        /\ params[i].slug = << "T", " " >>
        /\ updateResult[i] = "ok"
        /\ affiliateLink[i].slug = << "t" >>
        /\ affiliateLink[i].clicks = 5
        /\ response[i].destination = "https://partner.example/x"
        /\ affiliate_links[affiliateLink[i].id].clicks = 6

\* C2: no step lowers the stored clicks of a row.
C2_ClicksNeverDecrease ==
    [][ \A id \in Ids :
          affiliate_links'[id].clicks >= affiliate_links[id].clicks ]_vars

\* C3: a counter update that returns an error does not change the outcome:
\* the invocation still responds, with the destination and the status of
\* an invocation on the same row whose update succeeded, and the failed
\* update leaves the table as it was.
C3_UpdateFailureKeepsOutcome ==
    /\ [] ( \A i \in Invs :
              updateResult[i] = "error"
                => /\ pc[i] = "done"
                   /\ response[i] # NoResponse
                   /\ response[i].destination # NULL
                   /\ \A j \in Invs :
                        ( /\ updateResult[j] = "ok"
                          /\ affiliateLink[j].id = affiliateLink[i].id )
                        => /\ response[i].destination
                                = response[j].destination
                           /\ response[i].status = response[j].status )
    /\ [][ \A i \in Invs :
             ( UpdateStep(i) /\ updateResult'[i] = "error" )
               => affiliate_links' = affiliate_links ]_vars

\* C3 witness: two invocations on the same row, one whose update failed
\* and one whose update succeeded, both answered.
C3_Witness ==
    \E i, j \in Invs :
        /\ updateResult[i] = "error"
        /\ updateResult[j] = "ok"
        /\ affiliateLink[i].id = affiliateLink[j].id
        /\ response[i].destination = "https://partner.example/x"
        /\ response[j].destination = "https://partner.example/x"

\* C4: the destination of a matched row follows the fallback chain:
\* a valid http(s) redirect_url; else a valid http(s) fallback_url; else
\* the fixed default.  Every destination is an http(s) URL.
C4_FallbackChain ==
    /\ \A i \in Invs :
         ( fetchResult[i] = "row" /\ updateResult[i] \in { "ok", "error" } )
           => LET link == affiliateLink[i]
                  dest == response[i].destination
              IN /\ link.redirect_url \in HttpUrls
                      => dest = link.redirect_url
                 /\ ( /\ link.redirect_url \notin HttpUrls
                      /\ link.fallback_url \in HttpUrls )
                      => dest = link.fallback_url
                 /\ ( /\ link.redirect_url \notin HttpUrls
                      /\ link.fallback_url \notin HttpUrls )
                      => dest = "https://cogiflow.ai"
    /\ \A i \in Invs :
         response[i].destination # NULL
           => response[i].destination \in HttpUrls

\* C4 witness: a row whose redirect_url parses but is not http(s) and
\* whose fallback_url is valid was resolved to the fallback_url.
C4_Witness ==
    \E i \in Invs :
        /\ pc[i] = "done"
        /\ affiliateLink[i].redirect_url = "javascript:alert(1)"
        /\ affiliateLink[i].fallback_url = "http://fallback.example/"
        /\ response[i].destination = "http://fallback.example/"

\* C5: a GET whose slug is missing, empty, blank or holds a character
\* outside a-z0-9-_ after trim and lowercase is answered with the default
\* redirect (301, max-age=300), and issues neither a lookup nor an update.
C5_InvalidSlugRejected ==
    \A i \in Invs :
        ( method[i] = "GET" /\ ~WellFormed(params[i]) )
          => /\ pc[i] = "done"
             /\ IsDefaultRedirect(response[i], "public, max-age=300")
             /\ ~calls[i].select
             /\ ~calls[i].update
             /\ fetchResult[i] = NULL
             /\ affiliateLink[i] = NullLink

\* C5 witness: the slug "/t", whose stripped form "t" is the slug of an
\* active row, was answered with the default redirect.
C5_Witness ==
    \E i \in Invs :
        /\ method[i] = "GET"
        /\ params[i].slug = << "/", "t" >>
        /\ affiliate_links["id1"].active
        /\ response[i].status = 301
        /\ response[i].destination = "https://cogiflow.ai"
        /\ ~calls[i].select

\* C6 as claimed: a GET with a well-formed slug that no active row has is
\* answered with the default redirect and max-age=300, issues no update.
C6_NoActiveRowAsClaimed ==
    \A i \in Invs :
        ( /\ method[i] = "GET"
          /\ WellFormed(params[i])
          /\ ActiveRowsOf(params[i]) = { } )
          => /\ pc[i] = "done"
             /\ IsDefaultRedirect(response[i], "public, max-age=300")
             /\ ~calls[i].update

\* C6 amended: such a GET is answered with the default redirect, with
\* max-age=300 when the lookup answers and max-age=60 when the lookup
\* fails with a store error or raises; it issues no update; no step
\* changes an inactive row, and no response names an inactive row.
C6_NoActiveRow ==
    /\ [] ( \A i \in Invs :
              ( /\ method[i] = "GET"
                /\ WellFormed(params[i])
                /\ ActiveRowsOf(params[i]) = { } )
                => /\ pc[i] = "done"
                   /\ IsDefaultRedirect(
                          response[i],
                          IF fetchResult[i] \in { "08006", "thrown" }
                          THEN "public, max-age=60"
                          ELSE "public, max-age=300")
                   /\ ~calls[i].update )
    /\ [] ( \A i \in Invs :
              response[i].affiliate # NULL
                => affiliate_links[response[i].affiliate].active )
    /\ [][ \A id \in Ids :
             ~affiliate_links[id].active
               => affiliate_links'[id] = affiliate_links[id] ]_vars

\* C6 witness: the slug "t" was requested while a row of slug "t" exists
\* but no row of that slug is active; the lookup answered "no rows".
C6_Witness ==
    \E i \in Invs :
        /\ method[i] = "GET"
        /\ params[i].slug = << "t" >>
        /\ ActiveRowsOf(params[i]) = { }
        /\ \E id \in Ids : affiliate_links[id].slug = << "t" >>
        /\ fetchResult[i] = "PGRST116"
        /\ response[i].cacheControl = "public, max-age=300"

\* C7: every invocation that ends has returned exactly one response, set
\* when it ends and never changed; a lookup that fails with a store error
\* other than "no rows", or a store call that raises, is answered with
\* the default redirect and max-age=60, which is shorter than the 300 of
\* the not-found path; a failed lookup issues no update.
C7_FailuresBecomeDefaultRedirect ==
    /\ [] ( \A i \in Invs : (pc[i] = "done") <=> (response[i] # NoResponse) )
    /\ [] ( \A i \in Invs :
              fetchResult[i] \in { "08006", "thrown" }
                => /\ pc[i] = "done"
                   /\ IsDefaultRedirect(response[i], "public, max-age=60")
                   /\ ~calls[i].update )
    /\ [] ( \A i \in Invs :
              updateResult[i] \in { "throw", "throwLate" }
                => /\ pc[i] = "done"
                   /\ IsDefaultRedirect(response[i], "public, max-age=60") )
    /\ [] ( ErrorMaxAge < NotFoundMaxAge )
    /\ [][ \A i \in Invs :
             pc[i] = "done"
               => pc'[i] = "done" /\ response'[i] = response[i] ]_vars

\* C7 witness: a lookup failed with a store error and was answered with
\* the default redirect, max-age=60.
C7_Witness ==
    \E i \in Invs :
        /\ fetchResult[i] = "08006"
        /\ WellFormed(params[i])
        /\ response[i].cacheControl = "public, max-age=60"

\* C8: every tracked response carries the matched row's id, the click
\* count the table holds for that row right after this invocation's
\* update step, and a Cache-Control that disables caching; every other
\* response carries neither diagnostic header.
C8_DiagnosticHeaders ==
    [][ \A i \in Invs :
          /\ ( UpdateStep(i) /\ updateResult'[i] \in { "ok", "error" } )
               => /\ response'[i].affiliate = affiliateLink[i].id
                  /\ response'[i].clicks =
                       DecimalString(
                           affiliate_links'[affiliateLink[i].id].clicks)
                  /\ response'[i].cacheControl =
                       "no-cache, no-store, must-revalidate"
          /\ ( pc'[i] = "done" /\ response'[i].destination
                                     = "https://cogiflow.ai"
               /\ response'[i].cacheControl
                    # "no-cache, no-store, must-revalidate" )
               => /\ response'[i].affiliate = NULL
                  /\ response'[i].clicks = NULL
      ]_vars

\* C9: POST, PUT and DELETE are answered 405 with the JSON body
\* {"error":"Method not allowed"} whatever the slug, issue no store call
\* and leave the table as it was.
C9_OtherMethodsRejected ==
    /\ [] ( \A i \in Invs :
              method[i] \in { "POST", "PUT", "DELETE" }
                => /\ pc[i] = "done"
                   /\ response[i].status = 405
                   /\ response[i].body = "{\"error\":\"Method not allowed\"}"
                   /\ response[i].destination = NULL
                   /\ ~calls[i].select
                   /\ ~calls[i].update
                   /\ affiliateLink[i] = NullLink )
    /\ [][ \A i \in Invs :
             ( pc[i] = "idle" /\ method'[i] \in { "POST", "PUT", "DELETE" } )
               => affiliate_links' = affiliate_links ]_vars

\* C9 witness: POST /redirect/t was answered 405.
C9_Witness ==
    \E i \in Invs :
        /\ method[i] = "POST"
        /\ params[i].slug = << "t" >>
        /\ affiliate_links["id1"].active
        /\ response[i].status = 405

\* Invocations i and j resolved the same row with both lookups before
\* either update, both updates succeeded, and no other invocation has
\* issued an update of that row.
RacedPair(i, j) ==
    /\ i # j
    /\ updateResult[i] = "ok"
    /\ updateResult[j] = "ok"
    /\ affiliateLink[i].id = affiliateLink[j].id
    /\ affiliateLink[i].clicks = affiliateLink[j].clicks
    /\ \A k \in Invs \ { i, j } :
         ~( calls[k].update /\ affiliateLink[k].id = affiliateLink[i].id )

SucceededUpdates(id) ==
    { i \in Invs :
        UpdateApplied(updateResult[i]) /\ affiliateLink[i].id = id }

\* C11: in every state a row's clicks is at least its initial value and
\* at most its initial value plus the number of updates of the row that
\* have succeeded so far (no update counts more than one click), and once
\* an update of the row has succeeded it is at least the initial value
\* plus 1.
C11_ClicksBounded ==
    \A id \in Ids :
        /\ affiliate_links[id].clicks >= initialClicks[id]
        /\ affiliate_links[id].clicks
             <= initialClicks[id] + Cardinality(SucceededUpdates(id))
        /\ SucceededUpdates(id) # { }
             => affiliate_links[id].clicks >= initialClicks[id] + 1

\* C11 witness: three updates of a row that held 5 clicks have succeeded
\* and the row holds 6, inside the bounds and below the upper one.
C11_Witness ==
    \E id \in Ids :
        /\ initialClicks[id] = 5
        /\ Cardinality(SucceededUpdates(id)) = 3
        /\ affiliate_links[id].clicks = 6

\* C12: a GET invocation that ends with the default redirect of a failure
\* path (invalid input, not found, store error, or the catch block, at
\* whatever step the failure was raised) has left every row as it was:
\* the table changes only in a step that ends in a tracked response.
C12_DefaultRedirectRecordsNoClick ==
    [][ \A i \in Invs :
          ( /\ pc[i] # "done"
            /\ pc'[i] = "done"
            /\ method'[i] = "GET"
            /\ response'[i].affiliate = NULL
            /\ response'[i].destination = DefaultUrl )
            => affiliate_links' = affiliate_links ]_vars

====
